---- MODULE Spec2Model ----
(***************************************************************************)
(* The document/widget binding of the file editor:                         *)
(*   DocumentModel, ABCWidgetFactory (packages/docregistry/src/default.ts) *)
(*   FileEditorCodeWrapper, FileEditor (packages/fileeditor/src/widget.ts) *)
(*                                                                         *)
(* Strings are sequences of one-character strings, so that JSON.stringify, *)
(* JSON.parse, String.split and PathExt.basename are computed, not assumed.*)
(*                                                                         *)
(* Signal delivery is synchronous: one action is one whole call, with      *)
(* every handler it reaches.  The methods are operators on a record `s`    *)
(* holding the fields of the objects; an action applies its method to the  *)
(* current fields (Cur) and stores the result (Store).                     *)
(*                                                                         *)
(* Collaborators whose code is not among the sources are modelled after    *)
(* the specification:                                                      *)
(*   - the editor surface holds a buffer of its own (editorText) with an   *)
(*     undo history; the widget writes it through editor.model.value.text, *)
(*     and a user's edit is mirrored into the document model;              *)
(*   - the observable string behind DocumentModel.value emits changed on   *)
(*     every assignment of its text;                                       *)
(*   - disposing a widget drops the connections it is the receiver of;     *)
(*   - a promise continuation is a queued step of its own, which runs      *)
(*     before the next event of the page or of the network.                *)
(*                                                                         *)
(* Spec is the widget on a plain context; SpecCollab is the widget on      *)
(* collaborative storage, with renames; SpecRoster is the roster and the   *)
(* selections of a session of three; SpecLoad is a widget constructed on   *)
(* an empty model that is loaded; SpecJSON is the model's structured       *)
(* accessors; SpecFactory is the widget factory and the arrays it shares   *)
(* with its caller; SpecInput is the widget under a host that may or may   *)
(* not wait for readiness before attaching it; SpecFocus is the focus      *)
(* handling of FileEditor; SpecReady is the readiness continuation under   *)
(* weak fairness; SpecMime is a MimeDocument, its context and its activity *)
(* monitor.                                                                *)
(***************************************************************************)
EXTENDS Integers, Sequences, FiniteSets

(***************************************************************************)
(* Bounds of the model.                                                    *)
(***************************************************************************)
\* largest number among the JSON values handed to fromJSON
MaxNum == 1
\* most entries the editor's undo history holds before edits stop
MaxHistory == 2

(***************************************************************************)
(* JSON values: one record shape for every kind, so that any two values    *)
(* can be compared.  t is the kind; b, n, s hold a boolean, number, string;*)
(* a holds an array's elements or an object's member values, k an object's *)
(* member names, in order.                                                 *)
(***************************************************************************)
JNull == [t |-> "null", b |-> FALSE, n |-> 0, s |-> <<>>, a |-> <<>>, k |-> <<>>]
JBool(x) == [JNull EXCEPT !.t = "bool", !.b = x]
JNum(x) == [JNull EXCEPT !.t = "num", !.n = x]
JStr(cs) == [JNull EXCEPT !.t = "str", !.s = cs]
JArr(vs) == [JNull EXCEPT !.t = "arr", !.a = vs]
JObj(ks, vs) == [JNull EXCEPT !.t = "obj", !.k = ks, !.a = vs]

DigitChars == <<"0", "1", "2", "3", "4", "5", "6", "7", "8", "9">>
IsDigit(c) == \E d \in 1..10 : DigitChars[d] = c
DigitVal(c) == (CHOOSE d \in 1..10 : DigitChars[d] = c) - 1

RECURSIVE DecimalOf(_)
DecimalOf(x) ==
    IF x < 10 THEN <<DigitChars[x + 1]>>
    ELSE DecimalOf(x \div 10) \o <<DigitChars[(x % 10) + 1]>>

RECURSIVE EscapeChars(_)
EscapeChars(cs) ==
    IF cs = <<>> THEN <<>>
    ELSE (IF Head(cs) \in {"\"", "\\"} THEN <<"\\", Head(cs)>> ELSE <<Head(cs)>>)
         \o EscapeChars(Tail(cs))

Quote(cs) == <<"\"">> \o EscapeChars(cs) \o <<"\"">>

(***************************************************************************)
(* JSON.stringify on a JSON value (no indentation).                        *)
(***************************************************************************)
RECURSIVE JSONStringify(_)
RECURSIVE StringifyItems(_, _, _)
StringifyItems(ks, vs, withKeys) ==
    IF vs = <<>> THEN <<>>
    ELSE (IF withKeys THEN Quote(Head(ks)) \o <<":">> ELSE <<>>)
         \o JSONStringify(Head(vs))
         \o (IF Len(vs) > 1 THEN <<",">> ELSE <<>>)
         \o StringifyItems(IF withKeys THEN Tail(ks) ELSE ks, Tail(vs), withKeys)

JSONStringify(v) ==
    CASE v.t = "null" -> <<"n", "u", "l", "l">>
      [] v.t = "bool" -> IF v.b THEN <<"t", "r", "u", "e">>
                                ELSE <<"f", "a", "l", "s", "e">>
      [] v.t = "num" -> DecimalOf(v.n)
      [] v.t = "str" -> Quote(v.s)
      [] v.t = "arr" -> <<"[">> \o StringifyItems(<<>>, v.a, FALSE) \o <<"]">>
      [] v.t = "obj" -> <<"{">> \o StringifyItems(v.k, v.a, TRUE) \o <<"}">>

(***************************************************************************)
(* JSON.parse: a recursive-descent parser of the grammar's fragment with   *)
(* null, true, false, non-negative integers, strings with the escapes \"   *)
(* and \\, arrays and objects, and blanks between tokens.  A result is     *)
(* [ok, val, pos]: pos is the index after the parsed value; ok = FALSE is  *)
(* the SyntaxError JSON.parse throws.                                      *)
(***************************************************************************)
PFail == [ok |-> FALSE, val |-> JNull, pos |-> 0]
POk(v, p) == [ok |-> TRUE, val |-> v, pos |-> p]

RECURSIVE SkipWs(_, _)
SkipWs(cs, i) == IF i <= Len(cs) /\ cs[i] = " " THEN SkipWs(cs, i + 1) ELSE i

HasAt(cs, i, lit) ==
    /\ i + Len(lit) - 1 <= Len(cs)
    /\ \A j \in 1..Len(lit) : cs[i + j - 1] = lit[j]

\* the characters of a string literal whose opening quote is at i - 1
RECURSIVE ScanString(_, _, _)
ScanString(cs, i, acc) ==
    IF i > Len(cs) THEN PFail
    ELSE IF cs[i] = "\"" THEN POk(JStr(acc), i + 1)
    ELSE IF cs[i] = "\\"
         THEN IF i + 1 <= Len(cs) /\ cs[i + 1] \in {"\"", "\\"}
              THEN ScanString(cs, i + 2, Append(acc, cs[i + 1]))
              ELSE PFail
    ELSE ScanString(cs, i + 1, Append(acc, cs[i]))

RECURSIVE ScanDigits(_, _, _)
ScanDigits(cs, i, acc) ==
    IF i <= Len(cs) /\ IsDigit(cs[i])
    THEN ScanDigits(cs, i + 1, acc * 10 + DigitVal(cs[i]))
    ELSE POk(JNum(acc), i)

\* a leading 0 is a number on its own: "01" leaves the 1 unparsed
ScanNumber(cs, i) ==
    IF cs[i] = "0" THEN POk(JNum(0), i + 1) ELSE ScanDigits(cs, i, 0)

RECURSIVE ParseValue(_, _)
RECURSIVE ParseElements(_, _, _)
RECURSIVE ParseMembers(_, _, _, _)

\* the elements of an array after "[" or ","
ParseElements(cs, i, acc) ==
    LET r == ParseValue(cs, i)
        j == SkipWs(cs, r.pos)
    IN  IF ~r.ok \/ j > Len(cs) THEN PFail
        ELSE IF cs[j] = "," THEN ParseElements(cs, j + 1, Append(acc, r.val))
        ELSE IF cs[j] = "]" THEN POk(JArr(Append(acc, r.val)), j + 1)
        ELSE PFail

\* the members of an object after "{" or ","; a repeated name keeps its
\* first place and takes the last value
ParseMembers(cs, i0, ks, vs) ==
    LET i == SkipWs(cs, i0)
        key == IF i <= Len(cs) /\ cs[i] = "\"" THEN ScanString(cs, i + 1, <<>>)
               ELSE PFail
        c == SkipWs(cs, key.pos)
        r == IF key.ok /\ c <= Len(cs) /\ cs[c] = ":" THEN ParseValue(cs, c + 1)
             ELSE PFail
        j == SkipWs(cs, r.pos)
        dup == {x \in 1..Len(ks) : ks[x] = key.val.s}
        ks2 == IF dup = {} THEN Append(ks, key.val.s) ELSE ks
        vs2 == IF dup = {} THEN Append(vs, r.val)
               ELSE [vs EXCEPT ![CHOOSE x \in dup : TRUE] = r.val]
    IN  IF ~r.ok \/ j > Len(cs) THEN PFail
        ELSE IF cs[j] = "," THEN ParseMembers(cs, j + 1, ks2, vs2)
        ELSE IF cs[j] = "}" THEN POk(JObj(ks2, vs2), j + 1)
        ELSE PFail

ParseValue(cs, i0) ==
    LET i == SkipWs(cs, i0)
    IN  IF i > Len(cs) THEN PFail
        ELSE IF HasAt(cs, i, <<"n", "u", "l", "l">>) THEN POk(JNull, i + 4)
        ELSE IF HasAt(cs, i, <<"t", "r", "u", "e">>) THEN POk(JBool(TRUE), i + 4)
        ELSE IF HasAt(cs, i, <<"f", "a", "l", "s", "e">>) THEN POk(JBool(FALSE), i + 5)
        ELSE IF cs[i] = "\"" THEN ScanString(cs, i + 1, <<>>)
        ELSE IF IsDigit(cs[i]) THEN ScanNumber(cs, i)
        ELSE IF cs[i] = "["
             THEN LET j == SkipWs(cs, i + 1)
                  IN  IF j <= Len(cs) /\ cs[j] = "]" THEN POk(JArr(<<>>), j + 1)
                      ELSE ParseElements(cs, i + 1, <<>>)
        ELSE IF cs[i] = "{"
             THEN LET j == SkipWs(cs, i + 1)
                  IN  IF j <= Len(cs) /\ cs[j] = "}" THEN POk(JObj(<<>>, <<>>), j + 1)
                      ELSE ParseMembers(cs, i + 1, <<>>, <<>>)
        ELSE PFail

\* [ok, val]: the parsed value, or ok = FALSE for a SyntaxError
JSONParse(cs) ==
    LET r == ParseValue(cs, 1)
    IN  IF r.ok /\ SkipWs(cs, r.pos) > Len(cs)
        THEN [ok |-> TRUE, val |-> r.val]
        ELSE [ok |-> FALSE, val |-> JNull]

(***************************************************************************)
(* Inputs of the model.                                                    *)
(***************************************************************************)
\* the strings handed to fromString and typed into the editor: empty, a
\* word that is no JSON, a JSON text, and a JSON text cut short
Strings == {<<>>, <<"h", "i">>, <<"[", "0", "]">>, <<"[", "0">>}
\* the values handed to fromJSON
JSONValues ==
    {JNull, JBool(FALSE), JStr(<<>>), JArr(<<JNum(MaxNum)>>)}
    \cup {JNum(x) : x \in 0..MaxNum}
    \cup {JObj(<<<<"k">>>>, <<JStr(<<"\"">>)>>)}
\* the paths of the context: plain, with a drive prefix and a directory, and
\* with two colons
Paths ==
    {<<"a", ".", "t">>, <<"u", ":", "d", "/", "b", ".", "p", "y">>,
     <<"x", ":", "y", ":", "c">>}
\* the session ids of collaborators; the local one is LocalId
Ids == {"A", "B"}
LocalId == "A"
LocalColor == "green"
DefaultColor == "default"
FreshUuid == "uuid0"

\* widget.ts:41
DIRTY_CLASS == "jp-mod-dirty"

VARIABLES
    \* DocumentModel
    text,           \* value.text
    dirty,          \* _dirty
    readOnly,       \* _readOnly
    \* the editor surface (CodeEditor.IEditor and its mirrored buffer)
    editorText,     \* the buffer the editor shows
    history,        \* number of undoable entries
    mimeType,       \* editor.model.mimeType
    selections,     \* keys of editor.model.selections
    uuid,           \* editor.uuid
    selectionColor, \* editor.selectionStyle.color
    \* FileEditor / FileEditorCodeWrapper
    titleClass,     \* title.className, as its sequence of class names
    titleLabel,     \* title.label
    isDisposed,
    isAttached,     \* the mousedown listener is registered
    stateConn,      \* stateChanged is connected to _onModelStateChanged
    contentConn,    \* contentChanged is connected to _onContentChanged
    rosterConn,     \* collaborators.changed is connected to _onCollaboratorsChanged
    pathConn,       \* pathChanged is connected to _onPathChanged
    widgetReady,    \* _ready is resolved
    \* the context and its modelDB
    path,
    readyPhase,     \* context.ready: "pending", "resolved" (continuation queued), "ran"
    isCollaborative,
    connPhase,      \* modelDB.connected: "none", "pending", "resolved", "ran"
    hasRoster,      \* modelDB.collaborators is not null
    roster,         \* the session ids in modelDB.collaborators
    \* what the last call did
    lastOp,         \* [op, b, t, j, old]: the call, its argument, the text before it
    emitted,        \* the signals emitted, in order
    stateArgs,      \* the payloads of the stateChanged emissions, in order
    writes,         \* number of writes the widget made to the editor's buffer
    pruned,         \* the selection keys the call deleted
    returned,       \* [ok, val]: what the call returned, or ok = FALSE: it threw
    dirtyAtEmit,    \* the model's dirty flag as each signal was emitted, in order
    focusCalls,     \* number of calls of editor.focus()
    \* FileEditor and the editor's focus
    hasModel,       \* FileEditor.model is set
    hasFocus,       \* editor.hasFocus()
    \* the host application
    hostWaits,      \* the host attaches a widget only once it is ready
    \* ABCWidgetFactory and its caller
    factory,        \* the private fields of the factory
    heap,           \* the arrays allocated so far; an array is known by its index
    held,           \* the arrays the caller holds and may mutate
    widgets,        \* the widgets constructed by createNewWidget, in order
    notified,       \* the payloads a slot of widgetCreated received, in order
    created,        \* the widgets createNew returned, in order
    \* MimeDocument, its context and its activity monitor
    mime            \* the fields of the document, as one record

widgetVars == <<text, dirty, readOnly, editorText, history, mimeType, selections, uuid,
          selectionColor, titleClass, titleLabel, isDisposed, isAttached,
          stateConn, contentConn, rosterConn, pathConn, widgetReady, path,
          readyPhase, isCollaborative, connPhase, hasRoster, roster,
          lastOp, emitted, stateArgs, writes, pruned, returned,
          dirtyAtEmit, focusCalls, hasModel, hasFocus, hostWaits>>

factoryVars == <<factory, heap, held, widgets, notified, created>>

vars == <<widgetVars, factoryVars, mime>>

\* a call that returns nothing
NoResult == [ok |-> TRUE, val |-> JNull]

\* the fields as one record, with nothing emitted yet
Cur ==
    [text |-> text, dirty |-> dirty, readOnly |-> readOnly,
     editorText |-> editorText, history |-> history, mimeType |-> mimeType,
     selections |-> selections, uuid |-> uuid, selectionColor |-> selectionColor,
     titleClass |-> titleClass, titleLabel |-> titleLabel,
     isDisposed |-> isDisposed, isAttached |-> isAttached,
     stateConn |-> stateConn, contentConn |-> contentConn,
     rosterConn |-> rosterConn, pathConn |-> pathConn,
     widgetReady |-> widgetReady, path |-> path, readyPhase |-> readyPhase,
     isCollaborative |-> isCollaborative, connPhase |-> connPhase,
     hasRoster |-> hasRoster, roster |-> roster,
     emitted |-> <<>>, stateArgs |-> <<>>, writes |-> 0,
     pruned |-> {}, returned |-> NoResult,
     dirtyAtEmit |-> <<>>, focusCalls |-> 0,
     hasModel |-> hasModel, hasFocus |-> hasFocus, hostWaits |-> hostWaits]

Store(s, op) ==
    /\ text' = s.text /\ dirty' = s.dirty /\ readOnly' = s.readOnly
    /\ editorText' = s.editorText /\ history' = s.history
    /\ mimeType' = s.mimeType /\ selections' = s.selections /\ uuid' = s.uuid
    /\ selectionColor' = s.selectionColor
    /\ titleClass' = s.titleClass /\ titleLabel' = s.titleLabel
    /\ isDisposed' = s.isDisposed /\ isAttached' = s.isAttached
    /\ stateConn' = s.stateConn /\ contentConn' = s.contentConn
    /\ rosterConn' = s.rosterConn /\ pathConn' = s.pathConn
    /\ widgetReady' = s.widgetReady /\ path' = s.path
    /\ readyPhase' = s.readyPhase /\ isCollaborative' = s.isCollaborative
    /\ connPhase' = s.connPhase /\ hasRoster' = s.hasRoster /\ roster' = s.roster
    /\ emitted' = s.emitted /\ stateArgs' = s.stateArgs /\ writes' = s.writes
    /\ pruned' = s.pruned /\ returned' = s.returned
    /\ dirtyAtEmit' = s.dirtyAtEmit /\ focusCalls' = s.focusCalls
    /\ hasModel' = s.hasModel /\ hasFocus' = s.hasFocus
    /\ hostWaits' = s.hostWaits
    /\ lastOp' = op
    /\ UNCHANGED <<factoryVars, mime>>

Op(name) == [op |-> name, b |-> FALSE, t |-> <<>>, j |-> JNull, old |-> text]
OpB(name, x) == [Op(name) EXCEPT !.b = x]
OpT(name, x) == [Op(name) EXCEPT !.t = x]
OpJ(name, x) == [Op(name) EXCEPT !.j = x]

(***************************************************************************)
(* Signals.  An emission is logged, then delivered to the connected slot.  *)
(***************************************************************************)
Log(s, signal) ==
    [s EXCEPT !.emitted = Append(@, signal),
              !.dirtyAtEmit = Append(@, s.dirty)]

RECURSIVE RemoveFirst(_, _)
\* String.replace(x, ''): the first occurrence goes, the rest stays
RemoveFirst(seq, x) ==
    IF seq = <<>> THEN <<>>
    ELSE IF Head(seq) = x THEN Tail(seq)
    ELSE <<Head(seq)>> \o RemoveFirst(Tail(seq), x)

(***************************************************************************)
(* The editor surface.  A write to editor.model.value.text replaces the    *)
(* buffer and is recorded in the undo history; clearHistory empties it.    *)
(***************************************************************************)
EditorSetText(s, v) ==
    [s EXCEPT !.editorText = v, !.history = @ + 1, !.writes = @ + 1]

ClearHistory(s) == [s EXCEPT !.history = 0]

(***************************************************************************)
(* FileEditorCodeWrapper: the handlers of the model's signals.             *)
(***************************************************************************)
\* a handler that never takes the marker off
HandleDirtyStateNoReplace(s) ==
    IF s.dirty
    THEN [s EXCEPT !.titleClass = Append(@, DIRTY_CLASS)]
    ELSE s

\* widget.ts:149-155
HandleDirtyState(s) ==
    IF s.dirty
    THEN [s EXCEPT !.titleClass = Append(@, DIRTY_CLASS)]
    ELSE [s EXCEPT !.titleClass = RemoveFirst(@, DIRTY_CLASS)]

\* a handler that reacts to the wrong attribute
OnModelStateChangedReadOnly(s, args) ==
    IF args.name = "readOnly" THEN HandleDirtyState(s) ELSE s

\* a handler that reacts to every attribute
OnModelStateChangedAnyName(s, args) == HandleDirtyState(s)

\* widget.ts:140-144
OnModelStateChanged(s, args) ==
    IF args.name = "dirty" THEN HandleDirtyState(s) ELSE s

\* widget.ts:160-168; toString is default.ts:130-132
ToString(s) == s.text

\* a handler without the comparison: it always writes
OnContentChangedAlwaysWrite(s) == EditorSetText(s, ToString(s))

\* a handler that leaves the editor alone
OnContentChangedIgnore(s) == s

OnContentChanged(s) ==
    LET oldValue == s.editorText
        newValue == ToString(s)
    IN  IF oldValue # newValue THEN EditorSetText(s, newValue) ELSE s

(***************************************************************************)
(* DocumentModel.                                                          *)
(***************************************************************************)
\* default.ts:164-166
TriggerStateChange(s, args) ==
    LET s1 == [Log(s, "stateChanged") EXCEPT !.stateArgs = Append(@, args)]
    IN  IF s1.stateConn THEN OnModelStateChanged(s1, args) ELSE s1

\* a setter without the early return
SetDirtyAlwaysNotify(s, newValue) ==
    TriggerStateChange([s EXCEPT !.dirty = newValue],
        [name |-> "dirty", oldValue |-> s.dirty, newValue |-> newValue])

\* a dirty setter that also announces a change of content
SetDirtyAnnouncesContent(s, newValue) ==
    IF newValue = s.dirty THEN s
    ELSE LET oldValue == s.dirty
         IN  Log(TriggerStateChange([s EXCEPT !.dirty = newValue],
                     [name |-> "dirty", oldValue |-> oldValue,
                      newValue |-> newValue]),
                 "contentChanged")

\* default.ts:83-90
SetDirty(s, newValue) ==
    IF newValue = s.dirty THEN s
    ELSE LET oldValue == s.dirty
         IN  TriggerStateChange([s EXCEPT !.dirty = newValue],
                 [name |-> "dirty", oldValue |-> oldValue, newValue |-> newValue])

\* a readOnly setter without the early return
SetReadOnlyAlwaysNotify(s, newValue) ==
    TriggerStateChange([s EXCEPT !.readOnly = newValue],
        [name |-> "readOnly", oldValue |-> s.readOnly, newValue |-> newValue])

\* default.ts:98-105
SetReadOnly(s, newValue) ==
    IF newValue = s.readOnly THEN s
    ELSE LET oldValue == s.readOnly
         IN  TriggerStateChange([s EXCEPT !.readOnly = newValue],
                 [name |-> "readOnly", oldValue |-> oldValue, newValue |-> newValue])

\* a trigger that emits and leaves the dirty flag
TriggerContentChangeNoDirty(s) ==
    LET s1 == Log(s, "contentChanged")
    IN  IF s1.contentConn THEN OnContentChanged(s1) ELSE s1

\* a trigger that sets the dirty flag before it emits
TriggerContentChangeDirtyFirst(s) ==
    LET s1 == SetDirty(s, TRUE)
        s2 == Log(s1, "contentChanged")
    IN  IF s2.contentConn THEN OnContentChanged(s2) ELSE s2

\* a trigger that emits twice
TriggerContentChangeTwice(s) ==
    LET s1 == Log(Log(s, "contentChanged"), "contentChanged")
        s2 == IF s1.contentConn THEN OnContentChanged(s1) ELSE s1
    IN  SetDirty(s2, TRUE)

\* default.ts:171-174
TriggerContentChange(s) ==
    LET s1 == Log(s, "contentChanged")
        s2 == IF s1.contentConn THEN OnContentChanged(s1) ELSE s1
    IN  SetDirty(s2, TRUE)

\* value.text = v: the observable string takes the value and emits changed,
\* which the constructor (default.ts:60) connects to triggerContentChange
SetValueText(s, v) == TriggerContentChange([s EXCEPT !.text = v])

\* a fromString that returns early on an unchanged value
FromStringEarlyExit(s, value) ==
    IF value = s.text THEN s ELSE SetValueText(s, value)

\* a fromString that ignores an empty value
FromStringSkipEmpty(s, value) ==
    IF value = <<>> THEN s ELSE SetValueText(s, value)

\* default.ts:140-142
FromString(s, value) == SetValueText(s, value)

\* a fromJSON that takes a falsy value for no content
FromJSONFalsyEmpty(s, value) ==
    IF value \in {JNull, JBool(FALSE), JNum(0), JStr(<<>>)}
    THEN FromString(s, <<>>)
    ELSE FromString(s, JSONStringify(value))

\* default.ts:157-159
FromJSON(s, value) == FromString(s, JSONStringify(value))

\* a toJSON that parses the buffer as it is
ToJSONNoDefault(s) == JSONParse(s.text)

\* a toJSON that recovers from a failed parse with null
ToJSONRecovering(s) ==
    LET r == JSONParse(IF s.text = <<>> THEN <<"n", "u", "l", "l">> ELSE s.text)
    IN  IF r.ok THEN r ELSE [ok |-> TRUE, val |-> JNull]

\* default.ts:147-149: value.text || 'null'
ToJSON(s) ==
    JSONParse(IF s.text = <<>> THEN <<"n", "u", "l", "l">> ELSE s.text)

(***************************************************************************)
(* FileEditorCodeWrapper: readiness and collaboration.                     *)
(***************************************************************************)
\* a continuation that keeps the editor's history
OnContextReadyKeepHistory(s) ==
    IF s.isDisposed THEN s
    ELSE LET s1 == EditorSetText(s, ToString(s))
             s3 == HandleDirtyState(s1)
         IN  [s3 EXCEPT !.stateConn = TRUE, !.contentConn = TRUE,
                        !.widgetReady = TRUE]

\* a continuation that leaves the title's class alone
OnContextReadyNoMarker(s) ==
    IF s.isDisposed THEN s
    ELSE LET s1 == EditorSetText(s, ToString(s))
             s2 == ClearHistory(s1)
         IN  [s2 EXCEPT !.stateConn = TRUE, !.contentConn = TRUE,
                        !.widgetReady = TRUE]

\* a continuation without the check of the disposed flag
OnContextReadyUnguarded(s) ==
    LET s1 == EditorSetText(s, ToString(s))
        s2 == ClearHistory(s1)
        s3 == HandleDirtyState(s2)
    IN  [s3 EXCEPT !.stateConn = TRUE, !.contentConn = TRUE,
                   !.widgetReady = TRUE]

\* a continuation that resolves the ready promise of a disposed wrapper
OnContextReadyResolvesDisposed(s) ==
    IF s.isDisposed THEN [s EXCEPT !.widgetReady = TRUE]
    ELSE LET s1 == EditorSetText(s, ToString(s))
             s2 == ClearHistory(s1)
             s3 == HandleDirtyState(s2)
         IN  [s3 EXCEPT !.stateConn = TRUE, !.contentConn = TRUE,
                        !.widgetReady = TRUE]

\* widget.ts:114-135
OnContextReady(s) ==
    IF s.isDisposed THEN s
    ELSE LET s1 == EditorSetText(s, ToString(s))
             s2 == ClearHistory(s1)
             s3 == HandleDirtyState(s2)
         IN  [s3 EXCEPT !.stateConn = TRUE, !.contentConn = TRUE,
                        !.widgetReady = TRUE]

RECURSIVE SetToSeq(_)
\* the elements of a set, one after the other
SetToSeq(S) ==
    IF S = {} THEN <<>>
    ELSE LET x == CHOOSE y \in S : TRUE
         IN  <<x>> \o SetToSeq(S \ {x})

\* selections.keys(): an array of the keys the map holds now
Keys(s) == SetToSeq(s.selections)

\* selections.delete(key)
SelectionsDelete(s, key) ==
    [s EXCEPT !.selections = @ \ {key}, !.pruned = @ \cup {key}]

RECURSIVE PruneFrom(_, _)
\* widget.ts:181-185: the loop over the array of keys
PruneFrom(s, keys) ==
    IF keys = <<>> THEN s
    ELSE PruneFrom(IF Head(keys) \in s.roster THEN s
                   ELSE SelectionsDelete(s, Head(keys)),
                   Tail(keys))

RECURSIVE PruneLive(_, _)
\* a loop by index over the keys the map holds at each step
PruneLive(s, i) ==
    IF i > Len(Keys(s)) THEN s
    ELSE PruneLive(IF Keys(s)[i] \in s.roster THEN s
                   ELSE SelectionsDelete(s, Keys(s)[i]),
                   i + 1)

\* a handler whose loop skips the key that follows a deleted one
OnCollaboratorsChangedLive(s) ==
    IF ~s.hasRoster THEN s
    ELSE PruneLive(s, 1)

\* a handler without the check for a null roster: has() of null throws
OnCollaboratorsChangedNoNullCheck(s) ==
    IF ~s.hasRoster THEN [s EXCEPT !.returned = [ok |-> FALSE, val |-> JNull]]
    ELSE PruneFrom(s, Keys(s))

\* widget.ts:174-186
OnCollaboratorsChanged(s) ==
    IF ~s.hasRoster THEN s
    ELSE PruneFrom(s, Keys(s))

\* a continuation without the initial pruning pass
OnConnectedNoPrune(s) ==
    IF ~s.hasRoster THEN s
    ELSE [s EXCEPT !.uuid = LocalId, !.selectionColor = LocalColor,
                   !.rosterConn = TRUE]

\* a continuation that sets the session up only on a widget that is ready
OnConnectedOnlyWhenReady(s) ==
    IF ~s.hasRoster \/ ~s.widgetReady THEN s
    ELSE OnCollaboratorsChanged(
             [s EXCEPT !.uuid = LocalId, !.selectionColor = LocalColor,
                       !.rosterConn = TRUE])

\* widget.ts:75-93: the continuation of modelDB.connected
OnConnected(s) ==
    IF ~s.hasRoster THEN s
    ELSE OnCollaboratorsChanged(
             [s EXCEPT !.uuid = LocalId, !.selectionColor = LocalColor,
                       !.rosterConn = TRUE])

\* a constructor that subscribes to the model at once
FileEditorCodeWrapperNewSubscribes(s) ==
    LET s1 == EditorSetText(s, ToString(s))
    IN  [s1 EXCEPT !.connPhase = IF s.isCollaborative THEN @ ELSE "none",
                   !.stateConn = TRUE, !.contentConn = TRUE]

\* widget.ts:57-95
FileEditorCodeWrapperNew(s) ==
    LET s1 == EditorSetText(s, ToString(s))
    IN  [s1 EXCEPT !.connPhase = IF s.isCollaborative THEN @ ELSE "none"]

(***************************************************************************)
(* FileEditor.                                                             *)
(***************************************************************************)
RECURSIVE LastIndexOf(_, _)
\* the last index of c in cs, 0 when there is none
LastIndexOf(cs, c) ==
    IF cs = <<>> THEN 0
    ELSE IF cs[Len(cs)] = c THEN Len(cs)
    ELSE LastIndexOf(SubSeq(cs, 1, Len(cs) - 1), c)

\* path.split(':').pop()
SplitPop(cs) == SubSeq(cs, LastIndexOf(cs, ":") + 1, Len(cs))

RECURSIVE StripSlashes(_)
StripSlashes(cs) ==
    IF cs # <<>> /\ cs[Len(cs)] = "/" THEN StripSlashes(SubSeq(cs, 1, Len(cs) - 1))
    ELSE cs

\* PathExt.basename: the final segment, trailing separators dropped
Basename(cs) ==
    LET p == StripSlashes(cs)
    IN  SubSeq(p, LastIndexOf(p, "/") + 1, Len(p))

\* the mime-type service: by the file's extension
GetMimeTypeByFilePath(cs) ==
    LET name == Basename(cs)
        dot == LastIndexOf(name, ".")
        ext == IF dot = 0 THEN <<>> ELSE SubSeq(name, dot + 1, Len(name))
    IN  IF ext = <<"p", "y">> THEN "text/x-python" ELSE "text/plain"

\* a handler that takes the basename of the whole path
OnPathChangedWholePath(s) ==
    [s EXCEPT !.mimeType = GetMimeTypeByFilePath(s.path),
              !.titleLabel = Basename(s.path)]

\* widget.ts:298-304
OnPathChanged(s) ==
    [s EXCEPT !.mimeType = GetMimeTypeByFilePath(s.path),
              !.titleLabel = Basename(SplitPop(s.path))]

\* a constructor that registers the input listener itself
FileEditorNewListening(s) ==
    LET s1 == FileEditorCodeWrapperNew(s)
    IN  OnPathChanged([s1 EXCEPT !.hasModel = TRUE, !.pathConn = TRUE,
                                 !.isAttached = TRUE])

\* widget.ts:201-223
FileEditorNew(s) ==
    LET s1 == FileEditorCodeWrapperNew(s)
    IN  OnPathChanged([s1 EXCEPT !.hasModel = TRUE, !.pathConn = TRUE])

\* editor.focus() of the editor surface
EditorFocus(s) == [s EXCEPT !.hasFocus = TRUE, !.focusCalls = @ + 1]

\* an _ensureFocus that does not ask the editor first
EnsureFocusAlways(s) == EditorFocus(s)

\* widget.ts:289-293
EnsureFocus(s) == IF ~s.hasFocus THEN EditorFocus(s) ELSE s

\* widget.ts:249-260
HandleEvent(s, type) ==
    IF ~s.hasModel THEN s
    ELSE IF type = "mousedown" THEN EnsureFocus(s)
    ELSE s

\* widget.ts:282-284
OnActivateRequest(s) == EnsureFocus(s)

\* Widget.dispose of the toolkit: the flag is set, the widget is detached,
\* and every connection whose receiver is the widget or its child is dropped
Dispose(s) ==
    IF s.isDisposed THEN s
    ELSE [s EXCEPT !.isDisposed = TRUE, !.isAttached = FALSE,
                   !.stateConn = FALSE, !.contentConn = FALSE,
                   !.rosterConn = FALSE, !.pathConn = FALSE]

(***************************************************************************)
(* The context's side: the signals it emits.                               *)
(***************************************************************************)
\* context.path changes and pathChanged is emitted
PathChanged(s, p) ==
    LET s1 == Log([s EXCEPT !.path = p], "pathChanged")
    IN  IF s1.pathConn THEN OnPathChanged(s1) ELSE s1

\* the roster changes and collaborators.changed is emitted
RosterChanged(s, r) ==
    LET s1 == Log([s EXCEPT !.roster = r], "rosterChanged")
    IN  IF s1.rosterConn THEN OnCollaboratorsChanged(s1) ELSE s1

\* the user types in the attached editor: the buffer takes the text, the
\* history an entry, and the binding mirrors the text into the model
EditorEdit(s, v) ==
    SetValueText([s EXCEPT !.editorText = v, !.history = @ + 1], v)

(***************************************************************************)
(* The initial states: a FileEditor is constructed on a context whose      *)
(* model, path and promises are in any state the inputs allow.             *)
(***************************************************************************)
BeforeNew(t0, d0, p0, rp, collab, cp, hr, ro) ==
    [text |-> t0, dirty |-> d0, readOnly |-> FALSE,
     editorText |-> <<>>, history |-> 0, mimeType |-> "",
     selections |-> {}, uuid |-> FreshUuid, selectionColor |-> DefaultColor,
     titleClass |-> <<>>, titleLabel |-> <<>>,
     isDisposed |-> FALSE, isAttached |-> FALSE,
     stateConn |-> FALSE, contentConn |-> FALSE,
     rosterConn |-> FALSE, pathConn |-> FALSE,
     widgetReady |-> FALSE, path |-> p0, readyPhase |-> rp,
     isCollaborative |-> collab, connPhase |-> cp,
     hasRoster |-> hr, roster |-> ro,
     emitted |-> <<>>, stateArgs |-> <<>>, writes |-> 0,
     pruned |-> {}, returned |-> NoResult,
     dirtyAtEmit |-> <<>>, focusCalls |-> 0,
     hasModel |-> FALSE, hasFocus |-> FALSE, hostWaits |-> FALSE]

LoadWidget(s, op) ==
    /\ text = s.text /\ dirty = s.dirty /\ readOnly = s.readOnly
    /\ editorText = s.editorText /\ history = s.history
    /\ mimeType = s.mimeType /\ selections = s.selections /\ uuid = s.uuid
    /\ selectionColor = s.selectionColor
    /\ titleClass = s.titleClass /\ titleLabel = s.titleLabel
    /\ isDisposed = s.isDisposed /\ isAttached = s.isAttached
    /\ stateConn = s.stateConn /\ contentConn = s.contentConn
    /\ rosterConn = s.rosterConn /\ pathConn = s.pathConn
    /\ widgetReady = s.widgetReady /\ path = s.path
    /\ readyPhase = s.readyPhase /\ isCollaborative = s.isCollaborative
    /\ connPhase = s.connPhase /\ hasRoster = s.hasRoster /\ roster = s.roster
    /\ emitted = s.emitted /\ stateArgs = s.stateArgs /\ writes = s.writes
    /\ pruned = s.pruned /\ returned = s.returned
    /\ dirtyAtEmit = s.dirtyAtEmit /\ focusCalls = s.focusCalls
    /\ hasModel = s.hasModel /\ hasFocus = s.hasFocus
    /\ hostWaits = s.hostWaits
    /\ lastOp = op

\* no factory is involved: the widget is constructed directly
NoFactory ==
    /\ factory = [_isDisposed |-> FALSE] /\ heap = <<>> /\ held = {}
    /\ widgets = <<>> /\ notified = <<>> /\ created = <<>>

\* no MimeDocument is involved
NoMimeDocument == mime = [isDisposed |-> FALSE]

Load(s, op) == LoadWidget(s, op) /\ NoFactory /\ NoMimeDocument

\* the initial states on a context with path among ps, collaborative or not
InitOn(ps, collabs) ==
    \E t0 \in Strings, d0 \in BOOLEAN, p0 \in ps,
       rp \in {"pending", "resolved"},
       collab \in collabs, cp \in {"pending", "resolved"}, hr \in BOOLEAN :
        /\ collab \/ (cp = "pending" /\ ~hr)
        /\ Load(FileEditorNew(BeforeNew(t0, d0, p0, rp, collab, cp, hr,
                                        IF hr THEN {LocalId} ELSE {})),
                [op |-> "new", b |-> FALSE, t |-> <<>>, j |-> JNull, old |-> t0])

\* a plain context: not collaborative
Init == InitOn({<<"a", ".", "t">>}, {FALSE})

\* a context on collaborative storage
InitCollab == InitOn(Paths, {TRUE})

(***************************************************************************)
(* The actions: one per call from outside and one per continuation.        *)
(***************************************************************************)
\* a promise continuation is queued: it runs before the next event of the
\* page or of the network (user input, a rename, a roster or selection
\* update); only calls made by the code that is running can precede it
MicrotaskQueued == readyPhase = "resolved" \/ connPhase = "resolved"

DoFromString(strings) ==
    \E v \in strings :
        LET s == FromString(Cur, v)
        IN  s.history <= MaxHistory /\ Store(s, OpT("fromString", v))

DoFromJSON(values) ==
    \E v \in values :
        LET s == FromJSON(Cur, v)
        IN  s.history <= MaxHistory /\ Store(s, OpJ("fromJSON", v))

DoSetDirty == \E b \in BOOLEAN : Store(SetDirty(Cur, b), OpB("setDirty", b))

DoSetReadOnly ==
    \E b \in BOOLEAN : Store(SetReadOnly(Cur, b), OpB("setReadOnly", b))

DoEditorEdit(strings) ==
    /\ isAttached /\ ~isDisposed /\ ~MicrotaskQueued
    /\ history < MaxHistory
    /\ \E v \in strings :
        /\ v # editorText
        /\ Store(EditorEdit(Cur, v), OpT("edit", v))

\* context.ready resolves: the continuation of widget.ts:71 is queued
ContextReady ==
    /\ readyPhase = "pending"
    /\ Store([Cur EXCEPT !.readyPhase = "resolved"], Op("contextReady"))

\* the continuation of widget.ts:71
RunOnContextReady ==
    /\ readyPhase = "resolved"
    /\ Store(OnContextReady([Cur EXCEPT !.readyPhase = "ran"]),
             Op("onContextReady"))

\* modelDB.connected resolves: the continuation of widget.ts:75 is queued
Connected ==
    /\ connPhase = "pending"
    /\ Store([Cur EXCEPT !.connPhase = "resolved"], Op("connected"))

\* the continuation of widget.ts:75
RunOnConnected ==
    /\ connPhase = "resolved"
    /\ Store(OnConnected([Cur EXCEPT !.connPhase = "ran"]), Op("onConnected"))

\* the shell attaches the widget: widget.ts:265-269
Attach ==
    /\ ~isDisposed /\ ~isAttached
    /\ hostWaits => widgetReady
    /\ Store([Cur EXCEPT !.isAttached = TRUE], Op("attach"))

DoDispose ==
    /\ ~isDisposed
    /\ Store(Dispose(Cur), Op("dispose"))

\* a rename reported by the backend
DoPathChanged ==
    /\ ~MicrotaskQueued
    /\ \E p \in Paths :
        /\ p # path
        /\ Store(PathChanged(Cur, p), OpT("pathChanged", p))

\* a collaborator joins or leaves
DoRosterChanged(ids) ==
    /\ hasRoster /\ ~MicrotaskQueued
    /\ \E r \in SUBSET ids :
        /\ LocalId \in r /\ r # roster
        /\ Store(RosterChanged(Cur, r), Op("rosterChanged"))

\* a collaborator's selection arrives in the editor
SelectionSet(ids) ==
    /\ isCollaborative /\ ~isDisposed /\ ~MicrotaskQueued
    /\ \E key \in ids :
        /\ key \notin selections
        /\ Store([Cur EXCEPT !.selections = @ \cup {key}], Op("selectionSet"))

\* the widget on a plain context
Next ==
    \/ DoFromString(Strings)
    \/ DoFromJSON(JSONValues)
    \/ DoSetDirty
    \/ DoSetReadOnly
    \/ DoEditorEdit(Strings)
    \/ ContextReady
    \/ RunOnContextReady
    \/ Attach
    \/ DoDispose

Spec == Init /\ [][Next]_vars

\* the widget on collaborative storage, with renames; few texts
FewStrings == {<<>>, <<"h", "i">>}

NextCollab ==
    \/ DoFromString(FewStrings)
    \/ DoSetDirty
    \/ ContextReady
    \/ RunOnContextReady
    \/ Connected
    \/ RunOnConnected
    \/ DoDispose
    \/ DoPathChanged
    \/ DoRosterChanged(Ids)
    \/ SelectionSet(Ids)

SpecCollab == InitCollab /\ [][NextCollab]_vars

\* a toJSON that empties the buffer it could not parse
DoToJSONResetting ==
    LET r == ToJSON(Cur)
    IN  Store([(IF r.ok THEN Cur ELSE FromString(Cur, <<>>))
                  EXCEPT !.returned = r],
              Op("toJSON"))

\* the caller of toJSON gets the value, or the SyntaxError of JSON.parse
DoToJSON == Store([Cur EXCEPT !.returned = ToJSON(Cur)], Op("toJSON"))

\* the caller of toString gets the text
DoToString ==
    Store([Cur EXCEPT !.returned = [ok |-> TRUE, val |-> JStr(ToString(Cur))]],
          Op("toString"))

\* the values given to fromJSON, a string of malformed JSON text among them
JSONInputs == JSONValues \cup {JStr(<<"[", "0">>)}

\* the structured accessors of the model of a widget
NextJSON ==
    \/ DoFromString(Strings)
    \/ DoFromJSON(JSONInputs)
    \/ DoToJSON
    \/ DoToString
    \/ DoSetDirty
    \/ DoSetReadOnly
    \/ ContextReady
    \/ RunOnContextReady

SpecJSON == Init /\ [][NextJSON]_vars

\* a widget constructed on an empty, clean model that the backend loads
InitLoad ==
    \E p0 \in Paths :
        Load(FileEditorNew(BeforeNew(<<>>, FALSE, p0, "pending", FALSE,
                                     "pending", FALSE, {})),
             [op |-> "new", b |-> FALSE, t |-> <<>>, j |-> JNull, old |-> <<>>])

NextLoad ==
    \/ DoFromString(Strings)
    \/ DoSetDirty
    \/ ContextReady
    \/ RunOnContextReady
    \/ DoDispose

SpecLoad == InitLoad /\ [][NextLoad]_vars

\* user input, under a host that attaches a widget whenever it likes and
\* under one that waits for the widget to be ready
InitInput ==
    \E t0 \in FewStrings, rp \in {"pending", "resolved"}, hw \in BOOLEAN :
        /\ LoadWidget([FileEditorNew(BeforeNew(t0, FALSE, <<"a", ".", "t">>, rp,
                                     FALSE, "pending", FALSE, {}))
                           EXCEPT !.hostWaits = hw],
                      [op |-> "new", b |-> FALSE, t |-> <<>>, j |-> JNull,
                       old |-> t0])
        /\ NoFactory /\ NoMimeDocument

NextInput ==
    \/ DoFromString(FewStrings)
    \/ DoEditorEdit(Strings)
    \/ ContextReady
    \/ RunOnContextReady
    \/ Attach
    \/ DoDispose

SpecInput == InitInput /\ [][NextInput]_vars

\* the types of the DOM events delivered to the widget
EventTypes == {"mousedown", "keydown"}

DoHandleEvent ==
    /\ ~isDisposed
    /\ \E type \in EventTypes :
        Store(HandleEvent(Cur, type), OpT("handleEvent", <<type>>))

DoActivateRequest ==
    /\ ~isDisposed
    /\ Store(OnActivateRequest(Cur), Op("activateRequest"))

\* the editor loses the focus to another element of the page
Blur ==
    /\ hasFocus
    /\ Store([Cur EXCEPT !.hasFocus = FALSE], Op("blur"))

\* the public field model of the FileEditor is unset by its owner
UnsetModel ==
    /\ hasModel
    /\ Store([Cur EXCEPT !.hasModel = FALSE], Op("unsetModel"))

NextFocus ==
    \/ DoHandleEvent
    \/ DoActivateRequest
    \/ Blur
    \/ UnsetModel
    \/ ContextReady
    \/ RunOnContextReady
    \/ Attach
    \/ DoDispose

SpecFocus == Init /\ [][NextFocus]_vars

\* the widget and its ready promise; a queued continuation runs: the
\* microtask queue is drained after every task
NextReady ==
    \/ DoFromString(FewStrings)
    \/ DoSetDirty
    \/ ContextReady
    \/ RunOnContextReady
    \/ Attach
    \/ DoDispose

SpecReady == Init /\ [][NextReady]_vars /\ WF_vars(RunOnContextReady)

\* the roster and the selections of a session of three
MoreIds == Ids \cup {"C"}

InitRoster == InitOn({<<"a", ".", "t">>}, {TRUE, FALSE})

\* modelDB.collaborators becomes null, and a last emission of its changed
\* signal reaches the slots still connected
DoRosterDropped ==
    /\ hasRoster /\ ~MicrotaskQueued
    /\ Store(RosterChanged([Cur EXCEPT !.hasRoster = FALSE], {}),
             Op("rosterDropped"))

NextRoster ==
    \/ ContextReady
    \/ RunOnContextReady
    \/ Connected
    \/ RunOnConnected
    \/ DoDispose
    \/ DoRosterChanged(MoreIds)
    \/ DoRosterDropped
    \/ SelectionSet(MoreIds)

SpecRoster == InitRoster /\ [][NextRoster]_vars

(***************************************************************************)
(* ABCWidgetFactory and FileEditorFactory.  Arrays are objects: the heap   *)
(* holds them, a field or an option refers to one by its index, and the    *)
(* caller can mutate the arrays it holds.                                  *)
(***************************************************************************)
\* at most this many widgets are created
MaxWidgets == 2
\* at most this many arrays are allocated
MaxArrays == 5
\* the caller lets an array grow to this length
MaxLen == 2

\* the options a caller passes to the constructor; given holds the names of
\* the optional fields that are present, the others are undefined
FactoryOptions ==
    {[name |-> "Editor", given |-> {},
      fileTypesArr |-> <<"*">>, defaultForArr |-> <<>>,
      readOnly |-> FALSE, modelName |-> "", preferKernel |-> FALSE,
      canStartKernel |-> FALSE],
     [name |-> "Viewer",
      given |-> {"readOnly", "defaultFor", "modelName", "preferKernel",
                 "canStartKernel"},
      fileTypesArr |-> <<"py">>, defaultForArr |-> <<"py">>,
      readOnly |-> TRUE, modelName |-> "base64", preferKernel |-> TRUE,
      canStartKernel |-> TRUE],
     [name |-> "Plain",
      given |-> {"readOnly", "defaultFor", "modelName", "preferKernel"},
      fileTypesArr |-> <<"*">>, defaultForArr |-> <<>>,
      readOnly |-> FALSE, modelName |-> "", preferKernel |-> FALSE,
      canStartKernel |-> FALSE]}

\* the contexts handed to createNew: an empty clean document, and a dirty
\* one whose text is not valid JSON, on a drive
Contexts ==
    {[text |-> <<>>, dirty |-> FALSE, path |-> <<"a", ".", "t">>],
     [text |-> <<"[", "0">>, dirty |-> TRUE,
      path |-> <<"u", ":", "d", "/", "b", ".", "p", "y">>]}

\* the factory and its caller as one record
FCur ==
    [factory |-> factory, heap |-> heap, held |-> held, widgets |-> widgets,
     notified |-> notified, created |-> created]

FStore(f) ==
    /\ factory' = f.factory /\ heap' = f.heap /\ held' = f.held
    /\ widgets' = f.widgets /\ notified' = f.notified /\ created' = f.created
    /\ UNCHANGED <<widgetVars, mime>>

\* Array.prototype.slice(): a new array with the same elements; the new
\* array is the last of the heap
Slice(f, r) == [f EXCEPT !.heap = Append(@, @[r])]

\* the literal []
NewArray(f) == [f EXCEPT !.heap = Append(@, <<>>)]

\* a constructor that keeps the caller's fileTypes array
ABCWidgetFactoryNewNoCopy(f, options) ==
    LET f1 == IF "defaultFor" \in options.given
              THEN Slice(f, options.defaultFor) ELSE NewArray(f)
    IN  [f1 EXCEPT !.factory =
            [_name |-> options.name,
             _readOnly |-> IF "readOnly" \notin options.given THEN FALSE
                           ELSE options.readOnly,
             _defaultFor |-> Len(f1.heap),
             _fileTypes |-> options.fileTypes,
             _modelName |-> IF "modelName" \notin options.given
                               \/ options.modelName = ""
                            THEN "text" ELSE options.modelName,
             _preferKernel |-> "preferKernel" \in options.given
                               /\ options.preferKernel,
             _canStartKernel |-> "canStartKernel" \in options.given
                                 /\ options.canStartKernel,
             _isDisposed |-> FALSE]]

\* default.ts:299-307
ABCWidgetFactoryNew(f, options) ==
    LET f1 == IF "defaultFor" \in options.given
              THEN Slice(f, options.defaultFor) ELSE NewArray(f)
        f2 == Slice(f1, options.fileTypes)
    IN  [f2 EXCEPT !.factory =
            [_name |-> options.name,
             _readOnly |-> IF "readOnly" \notin options.given THEN FALSE
                           ELSE options.readOnly,
             _defaultFor |-> Len(f1.heap),
             _fileTypes |-> Len(f2.heap),
             _modelName |-> IF "modelName" \notin options.given
                               \/ options.modelName = ""
                            THEN "text" ELSE options.modelName,
             _preferKernel |-> "preferKernel" \in options.given
                               /\ options.preferKernel,
             _canStartKernel |-> "canStartKernel" \in options.given
                                 /\ options.canStartKernel,
             _isDisposed |-> FALSE]]

\* default.ts:326-328
FactoryDispose(f) == [f EXCEPT !.factory._isDisposed = TRUE]

\* default.ts:347-349: the caller gets a copy
GetFileTypes(f) ==
    LET f1 == Slice(f, f.factory._fileTypes)
    IN  [f1 EXCEPT !.held = @ \cup {Len(f1.heap)}]

\* default.ts:361-363: the caller gets a copy
GetDefaultFor(f) ==
    LET f1 == Slice(f, f.factory._defaultFor)
    IN  [f1 EXCEPT !.held = @ \cup {Len(f1.heap)}]

\* default.ts:333-377: what the getters answer
Capabilities(f) ==
    [name |-> f.factory._name,
     fileTypes |-> f.heap[f.factory._fileTypes],
     defaultFor |-> f.heap[f.factory._defaultFor],
     readOnly |-> f.factory._readOnly,
     preferKernel |-> f.factory._preferKernel,
     canStartKernel |-> f.factory._canStartKernel,
     modelName |-> f.factory._modelName]

\* widget.ts:358-369: a new FileEditor on the context; the new object is
\* known by its place in the order of construction
CreateNewWidget(f, context) ==
    [f EXCEPT !.widgets = Append(@,
        [id |-> Len(@) + 1,
         w |-> FileEditorNew(BeforeNew(context.text, context.dirty,
                   context.path, "pending", FALSE, "pending", FALSE, {}))])]

\* _widgetCreated.emit(widget), with one slot connected
EmitWidgetCreated(f, widget) == [f EXCEPT !.notified = Append(@, widget)]

\* a createNew that forgets the signal
CreateNewSilent(f, context) ==
    LET f1 == CreateNewWidget(f, context)
        widget == f1.widgets[Len(f1.widgets)].id
    IN  [f1 EXCEPT !.created = Append(@, widget)]

\* default.ts:385-389
CreateNew(f, context) ==
    LET f1 == CreateNewWidget(f, context)
        widget == f1.widgets[Len(f1.widgets)].id
        f2 == EmitWidgetCreated(f1, widget)
    IN  [f2 EXCEPT !.created = Append(@, widget)]

\* the caller pushes onto an array it holds
ArrayPush(f, r, x) == [f EXCEPT !.heap[r] = Append(@, x)]

\* the caller empties an array it holds: length = 0
ArrayClear(f, r) == [f EXCEPT !.heap[r] = <<>>]

\* the caller's arrays and options, then the factory constructed on them
InitFactory ==
    /\ NoMimeDocument
    /\ LoadWidget(FileEditorNew(BeforeNew(<<>>, FALSE, <<"a", ".", "t">>,
                      "pending", FALSE, "pending", FALSE, {})),
                  [op |-> "new", b |-> FALSE, t |-> <<>>, j |-> JNull,
                   old |-> <<>>])
    /\ \E o \in FactoryOptions :
        LET hasDefaultFor == "defaultFor" \in o.given
            f0 == [factory |-> [_isDisposed |-> FALSE],
                   heap |-> IF hasDefaultFor
                            THEN <<o.fileTypesArr, o.defaultForArr>>
                            ELSE <<o.fileTypesArr>>,
                   held |-> IF hasDefaultFor THEN {1, 2} ELSE {1},
                   widgets |-> <<>>, notified |-> <<>>, created |-> <<>>]
            options == [name |-> o.name, given |-> o.given,
                        fileTypes |-> 1, defaultFor |-> 2,
                        readOnly |-> o.readOnly, modelName |-> o.modelName,
                        preferKernel |-> o.preferKernel,
                        canStartKernel |-> o.canStartKernel]
            f == ABCWidgetFactoryNew(f0, options)
        IN  /\ factory = f.factory /\ heap = f.heap /\ held = f.held
            /\ widgets = f.widgets /\ notified = f.notified
            /\ created = f.created

DoCreateNew ==
    /\ Len(widgets) < MaxWidgets
    /\ \E context \in Contexts : FStore(CreateNew(FCur, context))

DoFactoryDispose ==
    /\ ~factory._isDisposed
    /\ FStore(FactoryDispose(FCur))

DoGetFileTypes ==
    /\ Len(heap) < MaxArrays
    /\ FStore(GetFileTypes(FCur))

DoGetDefaultFor ==
    /\ Len(heap) < MaxArrays
    /\ FStore(GetDefaultFor(FCur))

DoArrayPush ==
    \E r \in held :
        /\ Len(heap[r]) < MaxLen
        /\ FStore(ArrayPush(FCur, r, "x"))

DoArrayClear ==
    \E r \in held :
        /\ heap[r] # <<>>
        /\ FStore(ArrayClear(FCur, r))

NextFactory ==
    \/ DoCreateNew
    \/ DoFactoryDispose
    \/ DoGetFileTypes
    \/ DoGetDefaultFor
    \/ DoArrayPush
    \/ DoArrayClear

SpecFactory == InitFactory /\ [][NextFactory]_vars

(***************************************************************************)
(* MimeDocument: a widget that renders its context's model through a       *)
(* renderer.  The context, its model and the activity monitor are fields   *)
(* of the same record:                                                     *)
(*   text, path, isReady    the context: its model's text, its path, ready *)
(*   chain                  the promise chain of the constructor:          *)
(*                          "pending"   context.ready is not resolved      *)
(*                          "resolved"  the first continuation is queued   *)
(*                          "rendering" renderModel of the first render is *)
(*                                      in flight                          *)
(*                          "failed"    the first continuation threw       *)
(*                          "settled"   the second continuation is queued  *)
(*                          "done"      the second continuation ran        *)
(*   inFlight               renderModel calls of update-requests in flight *)
(*   monitors               the ActivityMonitors constructed so far;       *)
(*                          _monitor is an index into them, 0 when unset   *)
(***************************************************************************)
\* most renders started on one document
MaxRenders == 2

\* the texts of the document's model: empty, JSON, not JSON
MimeTexts == {<<>>, <<"1">>, <<"[", "0">>}

\* options.dataType, which may be left out
DataTypeOptions == {"undefined", "string", "json"}

\* default.ts:417-454: the constructor, up to the promise chain
MimeDocumentNew(context, dataTypeOption) ==
    [isDisposed |-> FALSE,
     text |-> context.text, path |-> context.path, isReady |-> context.isReady,
     titleLabel |-> Basename(context.path), pathConn |-> TRUE,
     _dataType |-> IF dataTypeOption = "undefined" THEN "string"
                   ELSE dataTypeOption,
     _monitor |-> 0, monitors |-> <<>>,
     _hasRendered |-> FALSE, _ready |-> FALSE,
     nodeActive |-> FALSE, forwarded |-> FALSE,
     chain |-> IF context.isReady THEN "resolved" ELSE "pending",
     inFlight |-> 0, rendersStarted |-> 0, threw |-> FALSE,
     disposedBeforeReady |-> FALSE, op |-> "new"]

\* default.ts:515-525: _render up to the call of renderModel; toJSON throws
\* on a text that is not JSON
Render(m) ==
    IF m._dataType = "json" /\ ~ToJSON(m).ok
    THEN [m EXCEPT !.threw = TRUE]
    ELSE [m EXCEPT !.rendersStarted = @ + 1]

\* default.ts:525-531: the continuation of renderModel
OnRenderModel(m) ==
    [m EXCEPT !.forwarded = @ \/ (~m._hasRendered /\ m.nodeActive),
              !._hasRendered = TRUE]

\* default.ts:440-445: the first continuation of context.ready
OnReadyRender(m) ==
    IF m.isDisposed THEN [m EXCEPT !.chain = "settled"]
    ELSE LET r == Render(m)
         IN  [r EXCEPT !.chain = IF r.threw THEN "failed" ELSE "rendering"]

\* default.ts:446-454: the second continuation
OnReadyMonitor(m) ==
    [m EXCEPT !.monitors = Append(@, [isDisposed |-> FALSE, activity |-> FALSE]),
              !._monitor = Len(m.monitors) + 1,
              !._ready = TRUE,
              !.chain = "done"]

\* default.ts:479-488; Widget.dispose drops the connections of the widget
MimeDispose(m) ==
    IF m.isDisposed THEN m
    ELSE [m EXCEPT !.monitors = IF m._monitor # 0
                                THEN [@ EXCEPT ![m._monitor].isDisposed = TRUE]
                                ELSE @,
                   !._monitor = 0,
                   !.isDisposed = TRUE, !.pathConn = FALSE]

\* default.ts:493-502
MimeOnActivateRequest(m) ==
    IF ~m._hasRendered THEN [m EXCEPT !.nodeActive = TRUE]
    ELSE [m EXCEPT !.forwarded = TRUE, !.nodeActive = TRUE]

\* default.ts:507-511
OnUpdateRequest(m) ==
    IF m.isReady
    THEN LET r == Render(m)
         IN  IF r.threw THEN r ELSE [r EXCEPT !.inFlight = @ + 1]
    ELSE m

\* the step of one call on the document: what the call threw is forgotten
MimeStep(m, name) ==
    /\ mime' = [m EXCEPT !.op = name]
    /\ UNCHANGED <<widgetVars, factoryVars>>

MCur == [mime EXCEPT !.threw = FALSE]

\* a MimeDocument is constructed on a context that is ready or not
InitMime ==
    /\ LoadWidget(FileEditorNew(BeforeNew(<<>>, FALSE, <<"a", ".", "t">>,
                      "pending", FALSE, "pending", FALSE, {})),
                  [op |-> "new", b |-> FALSE, t |-> <<>>, j |-> JNull,
                   old |-> <<>>])
    /\ NoFactory
    /\ \E t0 \in MimeTexts, r0 \in BOOLEAN, d0 \in DataTypeOptions :
        mime = MimeDocumentNew([text |-> t0, path |-> <<"d", "/", "a", ".", "t">>,
                                isReady |-> r0], d0)

\* context.ready resolves: isReady is set, the first continuation is queued
MimeContextReady ==
    /\ mime.chain = "pending"
    /\ MimeStep([MCur EXCEPT !.isReady = TRUE, !.chain = "resolved",
                             !.disposedBeforeReady = mime.isDisposed],
                "contextReady")

RunOnReadyRender ==
    /\ mime.chain = "resolved"
    /\ MimeStep(OnReadyRender(MCur), "onReadyRender")

\* renderModel of the first render resolves; the second continuation is queued
FirstRenderDone ==
    /\ mime.chain = "rendering"
    /\ MimeStep([OnRenderModel(MCur) EXCEPT !.chain = "settled"], "firstRendered")

RunOnReadyMonitor ==
    /\ mime.chain = "settled"
    /\ MimeStep(OnReadyMonitor(MCur), "onReadyMonitor")

\* renderModel of a later render resolves
UpdateRenderDone ==
    /\ mime.inFlight > 0
    /\ MimeStep([OnRenderModel(MCur) EXCEPT !.inFlight = @ - 1], "rendered")

DoMimeDispose ==
    /\ ~mime.isDisposed
    /\ MimeStep(MimeDispose(MCur), "dispose")

\* an update-request reaches the widget
DoUpdateRequest ==
    /\ ~mime.isDisposed
    /\ mime.rendersStarted < MaxRenders
    /\ MimeStep(OnUpdateRequest(MCur), "updateRequest")

DoMimeActivateRequest ==
    /\ ~mime.isDisposed /\ ~mime.nodeActive
    /\ MimeStep(MimeOnActivateRequest(MCur), "activateRequest")

\* the model's content changes: every live monitor sees the activity
MimeContentChanged ==
    \E v \in MimeTexts :
        /\ v # mime.text
        /\ MimeStep([MCur EXCEPT
                !.text = v,
                !.monitors = [i \in DOMAIN @ |->
                                 IF @[i].isDisposed THEN @[i]
                                 ELSE [@[i] EXCEPT !.activity = TRUE]]],
             "contentChanged")

\* the timeout of a monitor passes: activityStopped is emitted, update() posts
\* an update-request, which reaches a widget that is not disposed
ActivityStopped ==
    \E i \in DOMAIN mime.monitors :
        /\ ~mime.monitors[i].isDisposed /\ mime.monitors[i].activity
        /\ mime.rendersStarted < MaxRenders
        /\ LET m == [MCur EXCEPT !.monitors[i].activity = FALSE]
           IN  MimeStep(IF m.isDisposed THEN m ELSE OnUpdateRequest(m),
                        "activityStopped")

NextMime ==
    \/ MimeContextReady
    \/ RunOnReadyRender
    \/ FirstRenderDone
    \/ RunOnReadyMonitor
    \/ UpdateRenderDone
    \/ DoMimeDispose
    \/ DoUpdateRequest
    \/ DoMimeActivateRequest
    \/ MimeContentChanged
    \/ ActivityStopped

SpecMime == InitMime /\ [][NextMime]_vars

(***************************************************************************)
(* Properties.                                                             *)
(***************************************************************************)
\* the widget is Bound: the readiness continuation ran on it and it is not
\* disposed
Bound == widgetReady /\ ~isDisposed

HasDirtyMarker == \E i \in 1..Len(titleClass) : titleClass[i] = DIRTY_CLASS

Count(seq, x) == Cardinality({i \in 1..Len(seq) : seq[i] = x})

DirtyArgs(old, new) == [name |-> "dirty", oldValue |-> old, newValue |-> new]

\* the fields of the objects, without the record of the last call
objects == <<text, dirty, readOnly, editorText, history, mimeType, selections,
             uuid, selectionColor, titleClass, titleLabel, isDisposed,
             isAttached, stateConn, contentConn, rosterConn, pathConn,
             widgetReady, path, readyPhase, isCollaborative, connPhase,
             hasRoster, roster>>

\* C1: when _onContextReady has run on a widget that is not disposed, the
\* editor's text is the model's toString() and the editor's history is empty.
C1_ReadyReseeds ==
    (lastOp.op = "onContextReady" /\ ~isDisposed)
        => (editorText = ToString(Cur) /\ history = 0)

\* the continuation ran on a live widget whose model holds loaded text
C1_Witness ==
    /\ lastOp.op = "onContextReady" /\ ~isDisposed
    /\ text = <<"h", "i">> /\ editorText = text /\ writes = 1

\* C2 as stated: in every state from construction on, the title's class has
\* the dirty marker exactly when the model is dirty.
C2_MarkerAlways == HasDirtyMarker <=> dirty

\* C2 amended: while the widget is Bound, the title's class has the dirty
\* marker exactly when the model is dirty.
C2_MarkerWhenBound == Bound => (HasDirtyMarker <=> dirty)

\* a Bound widget took a dirty assignment and shows the marker
C2_Witness ==
    /\ Bound /\ lastOp.op = "setDirty" /\ lastOp.b /\ dirty /\ HasDirtyMarker
    /\ stateArgs = <<DirtyArgs(FALSE, TRUE)>>

\* C3: a call that changes the text leaves the model dirty, and dirty goes
\* from true to false only in an assignment dirty = false.
C3_DirtyTracksContent ==
    [][/\ text' # text => dirty'
       /\ (dirty /\ ~dirty') => (lastOp'.op = "setDirty" /\ ~lastOp'.b)]_vars

\* an edit in the editor made a clean model dirty
C3_Witness ==
    /\ lastOp.op = "edit" /\ text # lastOp.old /\ dirty
    /\ stateArgs = <<DirtyArgs(FALSE, TRUE)>>

\* C4: assigning dirty its current value emits nothing and changes nothing;
\* assigning another value sets the flag and emits one stateChanged with
\* {name: 'dirty', oldValue, newValue}.
C4_DirtySetter ==
    [][lastOp'.op = "setDirty" =>
        IF lastOp'.b = dirty
        THEN emitted' = <<>> /\ stateArgs' = <<>> /\ UNCHANGED objects
        ELSE /\ dirty' = lastOp'.b
             /\ emitted' = <<"stateChanged">>
             /\ stateArgs' = <<DirtyArgs(dirty, lastOp'.b)>>]_vars

\* dirty was cleared by an assignment, with one notification
C4_Witness ==
    /\ lastOp.op = "setDirty" /\ ~lastOp.b /\ ~dirty
    /\ stateArgs = <<DirtyArgs(TRUE, FALSE)>>

\* C5: while the widget is Bound, between calls the editor's text is the
\* model's toString().
C5_BoundMirrors == Bound => editorText = ToString(Cur)

\* a Bound widget took new content from the model
C5_Witness ==
    /\ Bound /\ lastOp.op = "fromString" /\ lastOp.t # lastOp.old
    /\ writes = 1 /\ editorText = lastOp.t

\* C6: a connected _onContentChanged writes the editor's buffer exactly when
\* the model's string differs from the editor's text: once for new content
\* from the model, never for the echo of an edit or of equal content.
C6_EchoSuppression ==
    [][contentConn =>
        /\ lastOp'.op \in {"fromString", "fromJSON"}
             => writes' = IF text' = editorText THEN 0 ELSE 1
        /\ lastOp'.op = "edit" => writes' = 0]_vars

\* content equal to the editor's text was notified and not written
C6_Witness ==
    /\ Bound /\ contentConn /\ lastOp.op = "fromString" /\ lastOp.t = lastOp.old
    /\ emitted = <<"contentChanged">> /\ writes = 0

\* C7 as stated: once the widget is disposed, no content-changed,
\* state-changed, path-changed or roster-changed notification changes its
\* editor buffer, dirty marker, title label, mime type or selections.
C7_DisposedIgnoresNotifications ==
    [][(isDisposed /\ lastOp'.op \in {"fromString", "setDirty", "pathChanged",
                                      "rosterChanged"})
        => UNCHANGED <<editorText, titleClass, titleLabel, mimeType,
                       selections>>]_vars

\* C8: after fromString(s), toString() is s.
C8_FromStringRoundTrip ==
    lastOp.op = "fromString" => ToString(Cur) = lastOp.t

\* fromString replaced other content on a dirty, read-only model
C8_Witness ==
    /\ lastOp.op = "fromString" /\ lastOp.t = <<>> /\ lastOp.old = <<"[", "0">>
    /\ readOnly /\ text = <<>>

\* C9: after fromJSON(v), toJSON() succeeds with a value equal to v.
C9_FromJSONRoundTrip ==
    lastOp.op = "fromJSON" => ToJSON(Cur) = [ok |-> TRUE, val |-> lastOp.j]

\* fromJSON took the empty string
C9_Witness ==
    /\ lastOp.op = "fromJSON" /\ lastOp.j = JStr(<<>>)
    /\ text = <<"\"", "\"">>

C11_CreateNew ==
    [][created' # created =>
        /\ Len(widgets') = Len(widgets) + 1
        /\ SubSeq(widgets', 1, Len(widgets)) = widgets
        /\ \A i \in 1..Len(widgets) :
               widgets[i].id # widgets'[Len(widgets')].id
        /\ created' = Append(created, widgets'[Len(widgets')].id)
        /\ notified' = Append(notified, widgets'[Len(widgets')].id)
        /\ \E context \in Contexts :
               /\ widgets'[Len(widgets')].w.text = context.text
               /\ widgets'[Len(widgets')].w.path = context.path
               /\ widgets'[Len(widgets')].w.dirty = context.dirty]_vars

\* two widgets were created, the first on the dirty context whose text is
\* not valid JSON
C11_Witness ==
    /\ created = <<1, 2>> /\ notified = <<1, 2>>
    /\ widgets[1].w.text = <<"[", "0">> /\ widgets[2].w.text = <<>>

\* C12: the capabilities a factory advertises (name, fileTypes, defaultFor,
\* readOnly, preferKernel, canStartKernel, modelName) never change once it is
\* constructed: not by createNew, by dispose, by a mutation of the arrays of
\* the constructor's options, or by a mutation of an array a getter returned
C12_CapabilitiesImmutable ==
    [][Capabilities(FCur)' = Capabilities(FCur)]_vars

\* the factory is disposed, it made a widget, and the caller changed the
\* array it passed as fileTypes and an array a getter returned
C12_Witness ==
    /\ factory._isDisposed /\ Len(created) > 0
    /\ Len(heap) > 4 /\ heap[5] # heap[factory._fileTypes]
    /\ heap[5] # heap[factory._defaultFor]
    /\ heap[1] # heap[factory._fileTypes]

\* C13: after the construction of a FileEditor and after every path-changed
\* notification it receives, the editor's mime type is the one the mime-type
\* service gives for context.path and the title's label is the basename of
\* the part of context.path after its last colon
C13_PathDerived ==
    ~isDisposed =>
        /\ mimeType = GetMimeTypeByFilePath(path)
        /\ titleLabel = Basename(SplitPop(path))
        /\ path = <<"a", ".", "t">> =>
               titleLabel = <<"a", ".", "t">> /\ mimeType = "text/plain"
        /\ path = <<"u", ":", "d", "/", "b", ".", "p", "y">> =>
               titleLabel = <<"b", ".", "p", "y">> /\ mimeType = "text/x-python"
        /\ path = <<"x", ":", "y", ":", "c">> =>
               titleLabel = <<"c">> /\ mimeType = "text/plain"

\* a rename to a path with two colons reached the widget
C13_Witness ==
    /\ lastOp.op = "pathChanged" /\ ~isDisposed
    /\ path = <<"x", ":", "y", ":", "c">> /\ titleLabel = <<"c">>
    /\ emitted = <<"pathChanged">>

\* C14: on a roster-changed notification every selection key that is not in
\* the roster is removed and every key that is in it is kept; every key the
\* map held when the handler started is visited, although entries are
\* deleted during the iteration
C14_Pruning ==
    [][(lastOp'.op = "rosterChanged" /\ rosterConn) =>
        /\ selections' = selections \cap roster'
        /\ pruned' = selections \ roster']_vars

\* the roster shrank to the local collaborator and the two stale selections
\* went in one pass
C14_Witness ==
    /\ lastOp.op = "rosterChanged" /\ rosterConn
    /\ roster = {"A"} /\ selections = {"A"} /\ pruned = {"B", "C"}

\* C15 as stated: for a context with path p whose model text is empty at
\* construction and is loaded to a text t before readiness resolves, after
\* readiness resolves the editor's buffer is t, the dirty marker is absent
\* and the title's label is the final segment of p
C15_LoadedNoMarker ==
    (lastOp.op = "onContextReady" /\ ~isDisposed /\ text # <<>>) =>
        /\ editorText = text
        /\ ~HasDirtyMarker
        /\ titleLabel = Basename(SplitPop(path))

\* C15 amended: in that case the buffer is t and the label the final segment
\* of p, and the dirty marker is present exactly when the model is dirty as
\* the continuation runs: it is absent when the owner cleared the flag after
\* the load
C15_LoadedMarkerIsDirty ==
    (lastOp.op = "onContextReady" /\ ~isDisposed /\ text # <<>>) =>
        /\ editorText = text
        /\ HasDirtyMarker <=> dirty
        /\ titleLabel = Basename(SplitPop(path))
        /\ path = <<"a", ".", "t">> => titleLabel = <<"a", ".", "t">>

\* the model was loaded, the owner cleared the flag, readiness resolved
C15_Witness ==
    /\ lastOp.op = "onContextReady" /\ ~isDisposed
    /\ text = <<"h", "i">> /\ editorText = <<"h", "i">>
    /\ ~dirty /\ ~HasDirtyMarker
    /\ path = <<"a", ".", "t">> /\ titleLabel = <<"a", ".", "t">>

\* C16: for a Bound widget, after each state-changed notification for the
\* dirty attribute has been handled the title's class contains the dirty
\* marker exactly when the new dirty value is true, and a state-changed
\* notification for another attribute (readOnly) leaves the title's class
\* as it was
C16_DirtyToggles ==
    [][(Bound /\ stateArgs' # <<>>) =>
        LET args == stateArgs'[Len(stateArgs')]
        IN  /\ args.name = "dirty" => (HasDirtyMarker' <=> args.newValue)
            /\ args.name = "readOnly" => titleClass' = titleClass]_vars

\* a Bound widget whose model was made read-only has just lost the marker
\* on dirty = false
C16_Witness ==
    /\ Bound /\ readOnly /\ lastOp.op = "setDirty"
    /\ stateArgs = <<DirtyArgs(TRUE, FALSE)>> /\ ~HasDirtyMarker

\* C17: toJSON() on a model whose text buffer is empty returns null and
\* raises no error
C17_EmptyIsNull ==
    (lastOp.op = "toJSON" /\ text = <<>>) =>
        returned = [ok |-> TRUE, val |-> JNull]

\* the buffer was emptied by fromString and toJSON answered null
C17_Witness ==
    /\ lastOp.op = "toJSON" /\ text = <<>> /\ dirty
    /\ returned.ok /\ returned.val = JNull /\ emitted = <<>>

\* the texts of the model that are JSON texts: the serialisations of values
JSONTexts ==
    {JSONStringify(v) : v \in JSONInputs \cup {JArr(<<JNum(0)>>)}}

C19_DisposedReadyNoOp ==
    [][(lastOp'.op = "onContextReady" /\ isDisposed) =>
        /\ editorText' = editorText /\ history' = history /\ writes' = 0
        /\ titleClass' = titleClass
        /\ stateConn' = stateConn /\ contentConn' = contentConn
        /\ widgetReady' = widgetReady
        /\ text' = text /\ dirty' = dirty /\ emitted' = <<>>]_vars

\* the continuation ran on a disposed wrapper whose buffer is stale, whose
\* history holds the seed and whose model is dirty
C19_Witness ==
    /\ lastOp.op = "onContextReady" /\ isDisposed
    /\ editorText # text /\ history > 0 /\ dirty /\ ~HasDirtyMarker
    /\ ~stateConn /\ ~contentConn /\ ~widgetReady

\* C20: when a wrapper on collaborative storage is disposed before the
\* connection promise resolves, the continuation of the promise is a no-op:
\* it sets neither the editor's uuid nor its selection style, does not
\* connect the roster's changed signal and prunes no selection
C20_DisposedConnectedNoOp ==
    [][(isDisposed /\ lastOp.op = "connected" /\ lastOp'.op = "onConnected") =>
        /\ uuid' = uuid /\ selectionColor' = selectionColor
        /\ rosterConn' = rosterConn
        /\ selections' = selections /\ pruned' = {}]_vars

PhaseRank == IF isDisposed THEN 3 ELSE IF widgetReady THEN 2 ELSE 1

\* C22: the lifecycle only moves forward; stateChanged and contentChanged are
\* connected at most once, and only by the readiness continuation; before
\* that the widget reacts to no notification of the model; a Disposed widget
\* never becomes Bound
C22_LifecycleForward ==
    [][/\ PhaseRank' >= PhaseRank
       /\ ((stateConn' /\ ~stateConn) \/ (contentConn' /\ ~contentConn)) =>
            /\ lastOp'.op = "onContextReady" /\ readyPhase = "resolved"
            /\ ~widgetReady /\ widgetReady' /\ stateConn' /\ contentConn'
       /\ ~widgetReady' => (~stateConn' /\ ~contentConn')
       /\ (~widgetReady /\ lastOp'.op \in {"fromString", "fromJSON", "setDirty",
                                           "setReadOnly"}) =>
            /\ editorText' = editorText /\ titleClass' = titleClass
            /\ writes' = 0
       /\ readyPhase = "ran" => lastOp'.op # "onContextReady"
       /\ isDisposed => ~Bound']_vars

\* a widget that was Bound and then disposed is notified by its model
C22_Witness ==
    /\ isDisposed /\ widgetReady /\ readyPhase = "ran"
    /\ ~stateConn /\ ~contentConn
    /\ lastOp.op = "fromString" /\ emitted = <<"contentChanged">>

\* C23: on collaborative storage with a roster, once the continuation of the
\* connection promise has run the editor's uuid is the local collaborator's
\* session id, its selection colour is the local collaborator's colour, the
\* roster's changed signal is connected and one pruning pass has run at
\* once; none of this happens before
C23_AdoptsIdentity ==
    [][/\ (lastOp'.op = "onConnected" /\ hasRoster) =>
            /\ uuid' = LocalId /\ selectionColor' = LocalColor /\ rosterConn'
            /\ selections' = selections \cap roster
            /\ pruned' = selections \ roster
       /\ (connPhase' = "ran" /\ hasRoster') =>
            /\ uuid' = LocalId /\ selectionColor' = LocalColor
            /\ rosterConn' \/ isDisposed'
       /\ connPhase' # "ran" =>
            /\ uuid' = FreshUuid /\ selectionColor' = DefaultColor
            /\ ~rosterConn' /\ pruned' = {}]_vars

\* the continuation adopted the identity and pruned a selection that was
\* set before the connection
C23_Witness ==
    /\ lastOp.op = "onConnected" /\ ~isDisposed /\ hasRoster
    /\ uuid = LocalId /\ selectionColor = LocalColor /\ rosterConn
    /\ pruned = {"B"}

\* C24: when the storage is not collaborative, or its roster is null as the
\* connection continuation or the roster handler runs, the collaboration
\* logic is skipped without an error: the editor's uuid and selection
\* style stay as they are, the roster's signal is not connected and no
\* selection is pruned
C24_NoRosterSkips ==
    [][/\ (~isCollaborative \/ ~hasRoster') =>
            /\ uuid' = uuid /\ selectionColor' = selectionColor
            /\ rosterConn' => rosterConn
            /\ pruned' = {} /\ selections \subseteq selections'
            /\ returned'.ok
       /\ ~isCollaborative' =>
            /\ uuid' = FreshUuid /\ selectionColor' = DefaultColor
            /\ ~rosterConn' /\ connPhase' = "none"]_vars

\* the roster handler ran with a null roster on a connected wrapper that
\* holds a selection
C24_Witness ==
    /\ lastOp.op = "rosterDropped" /\ rosterConn /\ ~hasRoster
    /\ emitted = <<"rosterChanged">> /\ selections # {} /\ pruned = {}
    /\ returned.ok

\* C25: on a mousedown delivered to handleEvent, or on an activate-request,
\* editor.focus() is called exactly when editor.hasFocus() is false, so a
\* repeated event while the focus is held calls it no more; an event of
\* another type, and any event while the widget's model is unset, calls it
\* not at all
C25_FocusOnce ==
    [][lastOp'.op \in {"handleEvent", "activateRequest"} =>
        LET asks == \/ lastOp'.op = "activateRequest"
                    \/ (lastOp'.t = <<"mousedown">> /\ hasModel)
        IN  /\ focusCalls' = IF asks /\ ~hasFocus THEN 1 ELSE 0
            /\ hasFocus' = (hasFocus \/ focusCalls' = 1)]_vars

\* a mousedown while the editor holds the focus called focus() no more
C25_Witness ==
    /\ lastOp.op = "handleEvent" /\ lastOp.t = <<"mousedown">>
    /\ hasModel /\ hasFocus /\ focusCalls = 0

\* C26: assigning readOnly its current value emits no stateChanged and
\* changes nothing; assigning another value sets the flag and emits one
\* stateChanged with {name: 'readOnly', oldValue, newValue}
C26_ReadOnlySetter ==
    [][lastOp'.op = "setReadOnly" =>
        IF lastOp'.b = readOnly
        THEN emitted' = <<>> /\ stateArgs' = <<>> /\ UNCHANGED objects
        ELSE /\ readOnly' = lastOp'.b
             /\ emitted' = <<"stateChanged">>
             /\ stateArgs' = <<[name |-> "readOnly", oldValue |-> readOnly,
                                newValue |-> lastOp'.b]>>
             /\ dirty' = dirty /\ text' = text]_vars

\* readOnly was cleared by an assignment, with one notification
C26_Witness ==
    /\ lastOp.op = "setReadOnly" /\ ~lastOp.b /\ ~readOnly
    /\ emitted = <<"stateChanged">>
    /\ stateArgs = <<[name |-> "readOnly", oldValue |-> TRUE,
                      newValue |-> FALSE]>>

\* C27: a content operation of the model that fails (toJSON on a buffer that
\* is not valid JSON, or a failing fromJSON) leaves the text, the dirty flag
\* and the read-only flag as they were and emits neither contentChanged nor
\* stateChanged
C27_FailureLeavesModel ==
    [][(lastOp'.op \in {"toJSON", "fromJSON"} /\ ~returned'.ok) =>
        /\ text' = text /\ dirty' = dirty /\ readOnly' = readOnly
        /\ editorText' = editorText /\ titleClass' = titleClass
        /\ emitted' = <<>> /\ stateArgs' = <<>>]_vars

\* toJSON failed on a dirty, read-only model whose text is no JSON
C27_Witness ==
    /\ lastOp.op = "toJSON" /\ ~returned.ok
    /\ text = <<"h", "i">> /\ dirty /\ readOnly /\ emitted = <<>>

\* C28: when triggerContentChange processes a change of the text,
\* contentChanged is delivered before the dirty flag is set: a handler
\* running for a change of a clean model still sees dirty = false, and the
\* stateChanged for dirty is delivered after the contentChanged handlers
\* have returned
C28_ContentBeforeDirty ==
    [][lastOp'.op \in {"fromString", "fromJSON", "edit"} =>
        /\ emitted' # <<>> /\ emitted'[1] = "contentChanged"
        /\ dirtyAtEmit'[1] = dirty
        /\ ~dirty => /\ emitted' = <<"contentChanged", "stateChanged">>
                      /\ dirtyAtEmit' = <<FALSE, TRUE>>
                      /\ dirty']_vars

\* a Bound widget handled the change of a clean model: its handler ran while
\* dirty was false, the stateChanged came after
C28_Witness ==
    /\ lastOp.op = "fromString" /\ contentConn /\ writes = 1
    /\ emitted = <<"contentChanged", "stateChanged">>
    /\ dirtyAtEmit = <<FALSE, TRUE>>

\* C29: each change of the text value emits exactly one contentChanged, plus
\* exactly one stateChanged {name: 'dirty', oldValue: false, newValue: true}
\* when the model was clean and no stateChanged when it was dirty
C29_OneNotificationPerChange ==
    [][text' # text =>
        /\ Count(emitted', "contentChanged") = 1
        /\ stateArgs' = IF dirty THEN <<>> ELSE <<DirtyArgs(FALSE, TRUE)>>
        /\ Count(emitted', "stateChanged") = Len(stateArgs')
        /\ Len(emitted') = 1 + Len(stateArgs')]_vars

\* a model that was dirty took new content: one contentChanged and no
\* stateChanged
C29_Witness ==
    /\ lastOp.op = "fromJSON" /\ text # lastOp.old /\ dirty
    /\ emitted = <<"contentChanged">> /\ stateArgs = <<>>

\* the ready promise of the widget resolves at most once, only in the
\* readiness continuation and after the model's signals are connected, and
\* never on a wrapper disposed before the continuation
ReadyResolvesSafely ==
    [][/\ (widgetReady' /\ ~widgetReady) =>
            /\ lastOp'.op = "onContextReady" /\ readyPhase = "resolved"
            /\ stateConn' /\ contentConn'
       /\ widgetReady => widgetReady'
       /\ readyPhase = "ran" => lastOp'.op # "onContextReady"
       /\ (isDisposed /\ ~widgetReady) => ~widgetReady']_vars

\* C30 as stated: the widget's ready promise resolves at most once, only
\* after the context's readiness resolved and the subscriptions are wired;
\* it eventually resolves if the context's readiness resolves while the
\* widget is not disposed, and never if the widget was disposed before
C30_ReadyResolves ==
    /\ ReadyResolvesSafely
    /\ (readyPhase = "resolved" /\ ~isDisposed) ~> widgetReady

\* C30 amended: it eventually resolves if the widget is not disposed when
\* the continuation of the context's readiness runs; a widget disposed
\* between the resolution and its continuation never resolves its promise
C30_ReadyResolvesUnlessDisposed ==
    /\ ReadyResolvesSafely
    /\ (readyPhase = "resolved" /\ ~isDisposed) ~> (widgetReady \/ isDisposed)
    /\ [](isDisposed /\ ~widgetReady => [](~widgetReady))

\* the continuation resolved the ready promise of an attached widget, with
\* both signals connected
C30_Witness ==
    /\ lastOp.op = "onContextReady" /\ widgetReady /\ readyPhase = "ran"
    /\ stateConn /\ contentConn /\ ~isDisposed /\ isAttached


(***************************************************************************)
(* C31: in every reachable state of a file editor widget, whatever the     *)
(* dirty assignments, content changes, readiness resolution and read-only  *)
(* changes so far, the title's class holds the dirty marker at most once.  *)
(***************************************************************************)
C31_AtMostOneMarker == Count(titleClass, DIRTY_CLASS) <= 1

\* the marker is there once on a bound, dirty widget whose read-only flag has
\* just been changed
C31_Witness ==
    /\ Bound /\ dirty /\ Count(titleClass, DIRTY_CLASS) = 1
    /\ lastOp.op = "setReadOnly" /\ readOnly /\ emitted = <<"stateChanged">>


(***************************************************************************)
(* C32: for a widget on collaborative storage that is not disposed, the    *)
(* state reached after both continuations (of the context's readiness and  *)
(* of the collaborative connection) have run is the same whichever of the  *)
(* two runs first: editor text, dirty marker, model subscriptions, editor  *)
(* uuid, selection style, roster subscription and pruned selections.       *)
(***************************************************************************)
\* what the claim compares
Settled(s) ==
    [editorText |-> s.editorText, titleClass |-> s.titleClass,
     stateConn |-> s.stateConn, contentConn |-> s.contentConn,
     widgetReady |-> s.widgetReady, uuid |-> s.uuid,
     selectionColor |-> s.selectionColor, rosterConn |-> s.rosterConn,
     selections |-> s.selections]

\* when the first of the two continuations runs, running the second on the
\* state it leaves gives what the opposite order gives on the state before
C32_OrderIndependent ==
    [][(/\ isCollaborative /\ ~isDisposed
        /\ readyPhase # "ran" /\ connPhase # "ran") =>
          /\ lastOp'.op = "onContextReady" =>
                Settled(OnConnected(Cur')) = Settled(OnContextReady(OnConnected(Cur)))
          /\ lastOp'.op = "onConnected" =>
                Settled(OnContextReady(Cur')) = Settled(OnConnected(OnContextReady(Cur)))]_vars

\* the readiness continuation ran first, re-seeded the editor and set the
\* marker; then the connection's continuation pruned a selection
C32_Witness ==
    /\ isCollaborative /\ ~isDisposed /\ hasRoster
    /\ lastOp.op = "onConnected" /\ connPhase = "ran" /\ readyPhase = "ran"
    /\ uuid = LocalId /\ rosterConn /\ stateConn /\ pruned # {}
    /\ HasDirtyMarker /\ text # <<>> /\ editorText = text



(***************************************************************************)
(* C33: if a MimeDocument is disposed before its context's readiness       *)
(* resolves, then after readiness resolves no render is performed, no      *)
(* ActivityMonitor is created or connected to the model's content-changed  *)
(* signal, and no monitor is left undisposed.                              *)
(***************************************************************************)
C33_DisposedEarlyDoesNothing ==
    mime.disposedBeforeReady =>
        /\ mime.rendersStarted = 0
        /\ mime.monitors = <<>>
        /\ \A i \in DOMAIN mime.monitors : mime.monitors[i].isDisposed

(***************************************************************************)
(* C34: a MimeDocument never renders before its context is ready: the      *)
(* first render starts only after the context's readiness resolves, an     *)
(* update-request received while context.isReady is false performs no      *)
(* render, and the widget's ready promise resolves only after the first    *)
(* render has completed.                                                   *)
(***************************************************************************)
C34_RenderAfterReady ==
    [][/\ mime'.rendersStarted > 0 => mime'.isReady
       /\ (mime'.op = "updateRequest" /\ ~mime.isReady) =>
               mime'.rendersStarted = mime.rendersStarted
       /\ mime'._ready => mime'._hasRendered]_vars


(***************************************************************************)
(* C35: assigning DocumentModel.dirty or DocumentModel.readOnly changes     *)
(* only that flag: the text and the other flag stay and no contentChanged  *)
(* is emitted; toString() and a toJSON() that succeeds change nothing of   *)
(* the model and emit nothing.                                             *)
(***************************************************************************)
C35_FrameEffects ==
    [][/\ lastOp'.op = "setDirty" =>
            /\ text' = text /\ readOnly' = readOnly
            /\ Count(emitted', "contentChanged") = 0
       /\ lastOp'.op = "setReadOnly" =>
            /\ text' = text /\ dirty' = dirty
            /\ Count(emitted', "contentChanged") = 0
       /\ (lastOp'.op = "toString" \/ (lastOp'.op = "toJSON" /\ returned'.ok)) =>
            /\ text' = text /\ dirty' = dirty /\ readOnly' = readOnly
            /\ emitted' = <<>> /\ stateArgs' = <<>>
       /\ lastOp'.op = "toString" => returned' = [ok |-> TRUE, val |-> JStr(text)]]_vars

\* dirty was raised by an assignment on a read-only model that has text
C35_Witness ==
    /\ lastOp.op = "setDirty" /\ lastOp.b /\ dirty /\ readOnly
    /\ text # <<>> /\ emitted = <<"stateChanged">>
    /\ stateArgs = <<DirtyArgs(FALSE, TRUE)>>

====
